---- MODULE Spec2Model ----
(***************************************************************************)
(* GeoSafe AI backend: the alert store and its lifecycle (acknowledge,     *)
(* resolve, escalate, recordAction, the periodic auto-escalation sweep),   *)
(* the socket handlers that touch alerts, and reading ingestion with the   *)
(* remote predictor, its retry policy and the rule-based fallback.         *)
(*                                                                         *)
(* Every handler that awaits the database between its read and its write   *)
(* is two steps here: the read with the synchronous guards that follow it, *)
(* and the write that mongoose's save() sends, which is a $set of the      *)
(* paths the handler assigned (a $push for an array push).                 *)
(*                                                                         *)
(* Numbers with decimals are scaled to integers: confidences by 10000,     *)
(* Soil_Saturation, Vegetation_Cover and Landslide by 100,                 *)
(* Earthquake_Activity by 10.                                              *)
(***************************************************************************)
EXTENDS Integers, Sequences, FiniteSets, TLC

\* ---------------------------------------------------------------- bounds
MaxAlerts == 2
MaxHandlers == 2
MaxSweeps == 2
MaxNow == 8
MaxMsec == 1
MaxActions == 2
MaxReadings == 2
MaxBatch == 2
\* caps of the lifecycle specification, which interleaves every route
LifecycleAlerts == 1
LifecycleSweeps == 1
LifecycleNow == 2
LifecycleActions == 1

\* ------------------------------------------------------ program constants
NoValue == "null"

Terminal == {"RESOLVED", "FALSE_POSITIVE"}

RiskLevels == {"LOW", "MEDIUM", "HIGH"}

priorities == <<"LOW", "MEDIUM", "HIGH", "CRITICAL">>

Priorities == {priorities[i] : i \in 1..4}

SweepActor == "SYSTEM_AUTO_ESCALATION"

\* sensors seeded at start-up, and ids a caller may name
Sensors == {"S1"}

SensorIds == Sensors \cup {"SX"}

\* values a caller may send for acknowledgedBy / resolvedBy / escalatedTo /
\* takenBy; NoValue is a missing (falsy) body field
Actors == {"op1"}
Actions == {"evacuate", "inspect"}

Resolutions == {"RESOLVED", "FALSE_POSITIVE", "CLOSED"}

Roles == {"operator", "supervisor", "viewer"}

Sockets == {"k1"}

VARIABLES
  now,        \* minutes elapsed: the setInterval sweep fires once per minute
  msec,       \* instant inside the current minute (Date.now() resolution)
  alerts,     \* the Alert collection, in insertion order
  readings,   \* the SensorReading collection, in insertion order
  lastReading,\* Sensor.lastReading per seeded sensor
  batch,      \* the POST /api/readings/batch request in progress, if any
  handlers,   \* request / socket-event handlers between their read and write
  sweeps,     \* sweep invocations: the loaded alerts still to escalate
  clients,    \* connectedClients: socket id -> role
  resp,       \* what the last handler step answered: HTTP status or emit
  origin,     \* history: creation priority and escalations applied per alert
  features,   \* the readings passed to a call of generateFallbackPrediction
  fallback,   \* what that call returned, once it has
  call        \* a call of the prediction client: its inputs and its progress

vars == <<now, msec, alerts, readings, lastReading, batch, handlers, sweeps, clients,
          resp, origin, features, fallback, call>>

Min(a, b) == IF a < b THEN a ELSE b

\* priorities.indexOf(p), 1-based
indexOf(p) == CHOOSE i \in 1..4 : priorities[i] = p

\* new Date() / Date.now()
Date == <<now, msec>>

\* the value of a date field that no code reads back (acknowledgedAt,
\* resolvedAt, escalatedAt, takenAt): set, as opposed to null
SomeDate == "date"

\* a Date field that is still null
NoDate == <<-1, 0>>

\* a <= b on dates
DateLE(a, b) == a[1] < b[1] \/ (a[1] = b[1] /\ a[2] <= b[2])

\* ------------------------------------------------------------ Alert model

\* new Alert(data): schema defaults for everything the creator leaves out
Alert(alertId, sensorId, readingId, riskLevel, confidence, priority, version, radius, factors) ==
  [alertId |-> alertId, sensorId |-> sensorId, sensorReadingId |-> readingId,
   riskLevel |-> riskLevel, confidence |-> confidence, triggeredAt |-> Date,
   acknowledgedAt |-> NoValue, acknowledgedBy |-> NoValue,
   resolvedAt |-> NoValue, resolvedBy |-> NoValue,
   status |-> "ACTIVE", priority |-> priority,
   level |-> 0, escalatedAt |-> NoValue, escalatedTo |-> NoValue,
   actionsTaken |-> <<>>, triggerFactors |-> factors, radius |-> radius,
   aiModelVersion |-> version]

\* alertSchema.methods.acknowledge: the paths it assigns
acknowledge(doc, acknowledgedBy) ==
  [status |-> "ACKNOWLEDGED", acknowledgedAt |-> SomeDate,
   acknowledgedBy |-> acknowledgedBy]

\* resolve with the resolution argument ignored (sensitivity variant)
resolveDefaultOnly(doc, resolvedBy, resolution) ==
  [status |-> "RESOLVED", resolvedAt |-> SomeDate, resolvedBy |-> resolvedBy]

\* alertSchema.methods.resolve: the paths it assigns
resolve(doc, resolvedBy, resolution) ==
  [status |-> resolution, resolvedAt |-> SomeDate, resolvedBy |-> resolvedBy]

\* escalate raising priority from level 2 on (sensitivity variant)
escalateEarlyRaise(doc, escalatedTo) ==
  IF doc.level + 1 >= 2 /\ doc.priority # "CRITICAL"
    THEN [level |-> doc.level + 1, escalatedAt |-> SomeDate,
          escalatedTo |-> escalatedTo,
          priority |-> priorities[Min(indexOf(doc.priority) + 1, 4)]]
    ELSE [level |-> doc.level + 1, escalatedAt |-> SomeDate,
          escalatedTo |-> escalatedTo]

\* escalate jumping straight to CRITICAL at level 3 (sensitivity variant)
escalateToCritical(doc, escalatedTo) ==
  IF doc.level + 1 >= 3
    THEN [level |-> doc.level + 1, escalatedAt |-> SomeDate,
          escalatedTo |-> escalatedTo, priority |-> "CRITICAL"]
    ELSE [level |-> doc.level + 1, escalatedAt |-> SomeDate,
          escalatedTo |-> escalatedTo]

\* alertSchema.methods.escalate: the paths it assigns; priority is assigned
\* only when the incremented level is >= 3 and priority is not CRITICAL
escalate(doc, escalatedTo) ==
  LET lvl == doc.level + 1
      base == [level |-> lvl, escalatedAt |-> SomeDate, escalatedTo |-> escalatedTo]
  IN IF lvl >= 3 /\ doc.priority # "CRITICAL"
       THEN [level |-> lvl, escalatedAt |-> SomeDate, escalatedTo |-> escalatedTo,
             priority |-> priorities[Min(indexOf(doc.priority) + 1, 4)]]
       ELSE base

\* document.save() of a loaded document: $set of the modified paths, $push of
\* the pushed array elements, applied to whatever is stored at that moment
save(stored, upd) ==
  [f \in DOMAIN stored |->
     IF f = "actionsTaken"
       THEN IF "push" \in DOMAIN upd THEN Append(stored[f], upd.push)
                                     ELSE stored[f]
       ELSE IF f \in DOMAIN upd THEN upd[f] ELSE stored[f]]

\* threshold in minutes of getAlertsNeedingEscalation's $or branches
escalationThreshold(p) ==
  CASE p = "CRITICAL" -> 2
    [] p = "HIGH" -> 5
    [] p = "MEDIUM" -> 15
    [] p = "LOW" -> 30

\* the virtual ageInMinutes read at date t: whole minutes since triggeredAt
ageInMinutes(a, t) ==
  t[1] - a.triggeredAt[1] - (IF t[2] < a.triggeredAt[2] THEN 1 ELSE 0)

\* the virtual needsEscalation read at date t
needsEscalation(a, t) ==
  IF a.status # "ACTIVE" THEN FALSE
  ELSE ageInMinutes(a, t) > escalationThreshold(a.priority) /\ a.level < 3

\* the filter with $lt in place of $lte (sensitivity variant)
matchesStrictly(a, t) ==
  /\ a.status = "ACTIVE"
  /\ a.level < 3
  /\ DateLE(a.triggeredAt, <<t[1] - escalationThreshold(a.priority), t[2]>>)
  /\ a.triggeredAt # <<t[1] - escalationThreshold(a.priority), t[2]>>

\* the filter taking only alerts never escalated before (sensitivity variant)
matchesUnescalated(a, t) ==
  /\ a.status = "ACTIVE"
  /\ a.level < 1
  /\ DateLE(a.triggeredAt, <<t[1] - escalationThreshold(a.priority), t[2]>>)

\* the filter of alertSchema.statics.getAlertsNeedingEscalation, run at date t
matchesEscalationQuery(a, t) ==
  /\ a.status = "ACTIVE"
  /\ a.level < 3
  /\ DateLE(a.triggeredAt, <<t[1] - escalationThreshold(a.priority), t[2]>>)

\* Alert.getAlertsNeedingEscalation() run at date t: the matching documents
\* as loaded, in collection order
RECURSIVE getAlertsNeedingEscalation(_, _)
getAlertsNeedingEscalation(i, t) ==
  IF i > Len(alerts) THEN <<>>
  ELSE (IF matchesEscalationQuery(alerts[i], t)
          THEN <<[id |-> i, level |-> alerts[i].level,
                  priority |-> alerts[i].priority]>>
          ELSE <<>>) \o getAlertsNeedingEscalation(i + 1, t)

\* ------------------------------------------------------------ state, Init

Idle == [op |-> "idle"]

\* no batch request is being served
NoBatch == [open |-> FALSE, left |-> 0, successful |-> 0, failed |-> 0]

\* generateFallbackPrediction has not returned
NoPrediction == [ok |-> FALSE]

\* no call of the prediction client is being followed
NoCall == [phase |-> "none"]

\* connectedClients has no entry for the socket
NoClient == [role |-> NoValue, name |-> NoValue]

NoResp == [op |-> "none", code |-> 0, error |-> NoValue, details |-> <<>>]

Reply(op, code, error) == [op |-> op, code |-> code, error |-> error, details |-> <<>>]

\* the 400 bodies with which the routes refuse an illegal state change
InvalidTransition ==
  {"Only active alerts can be acknowledged", "Alert is already resolved",
   "Only active alerts can be escalated",
   "Alert is already at maximum escalation level"}

MaxCount == 4

Init ==
  /\ now = 0
  /\ msec = 0
  /\ alerts = <<>>
  /\ readings = <<>>
  /\ lastReading = [s \in Sensors |-> NoDate]
  /\ batch = NoBatch
  /\ handlers = [h \in 1..MaxHandlers |-> Idle]
  /\ sweeps = [s \in 1..MaxSweeps |-> <<>>]
  /\ clients = [k \in Sockets |-> NoClient]
  /\ resp = NoResp
  /\ origin = <<>>
  /\ features = NoValue
  /\ fallback = NoPrediction
  /\ call = NoCall

\* a request or event is served by the first handler slot that is free
FirstFree(h) ==
  /\ handlers[h] = Idle
  /\ \A g \in 1..MaxHandlers : g < h => handlers[g] # Idle

\* the event loop turns: what the callback that just ran wrote to its caller
\* (res.json, socket.emit) is flushed before the next callback runs
Flush ==
  /\ resp # NoResp
  /\ UNCHANGED <<features, fallback, call>>
  /\ resp' = NoResp
  /\ UNCHANGED <<now, msec, alerts, readings, lastReading, batch, handlers, sweeps,
                 clients, origin>>

\* -------------------------------------------------- alert routes (alerts.js)

\* the database applies the update a handler's save() sent
Store(id, upd) ==
  /\ alerts' = [alerts EXCEPT ![id] = save(alerts[id], upd)]
  /\ origin' = IF "level" \in DOMAIN upd
                 THEN [origin EXCEPT ![id].escalations = Min(@ + 1, MaxCount)]
                 ELSE origin

\* the acknowledge route without its status guard (sensitivity variant)
AcknowledgeRouteUnguarded(h, id, acknowledgedBy) ==
  /\ resp = NoResp
  /\ UNCHANGED <<features, fallback, call>>
  /\ FirstFree(h)
  /\ UNCHANGED <<now, msec, alerts, readings, lastReading, batch, sweeps, clients, origin>>
  /\ IF acknowledgedBy = NoValue
       THEN /\ resp' = Reply("acknowledge", 400, "acknowledgedBy is required")
            /\ UNCHANGED handlers
     ELSE IF id > Len(alerts)
       THEN /\ resp' = Reply("acknowledge", 404, "Alert not found")
            /\ UNCHANGED handlers
     ELSE /\ handlers' = [handlers EXCEPT ![h] =
                 [op |-> "acknowledge", id |-> id,
                  upd |-> acknowledge(alerts[id], acknowledgedBy)]]
          /\ UNCHANGED resp

\* PATCH /:alertId/acknowledge up to the await of alert.acknowledge()
AcknowledgeRoute(h, id, acknowledgedBy) ==
  /\ resp = NoResp
  /\ UNCHANGED <<features, fallback, call>>
  /\ FirstFree(h)
  /\ UNCHANGED <<now, msec, alerts, readings, lastReading, batch, sweeps, clients, origin>>
  /\ IF acknowledgedBy = NoValue
       THEN /\ resp' = Reply("acknowledge", 400, "acknowledgedBy is required")
            /\ UNCHANGED handlers
     ELSE IF id > Len(alerts)
       THEN /\ resp' = Reply("acknowledge", 404, "Alert not found")
            /\ UNCHANGED handlers
     ELSE IF alerts[id].status # "ACTIVE"
       THEN /\ resp' = Reply("acknowledge", 400, "Only active alerts can be acknowledged")
            /\ UNCHANGED handlers
     ELSE /\ handlers' = [handlers EXCEPT ![h] =
                 [op |-> "acknowledge", id |-> id,
                  upd |-> acknowledge(alerts[id], acknowledgedBy)]]
          /\ UNCHANGED resp

\* PATCH /:alertId/resolve up to the await of alert.resolve()
ResolveRoute(h, id, resolvedBy, resolution) ==
  /\ resp = NoResp
  /\ UNCHANGED <<features, fallback, call>>
  /\ FirstFree(h)
  /\ UNCHANGED <<now, msec, alerts, readings, lastReading, batch, sweeps, clients, origin>>
  /\ IF resolvedBy = NoValue
       THEN /\ resp' = Reply("resolve", 400, "resolvedBy is required")
            /\ UNCHANGED handlers
     ELSE IF resolution \notin {"RESOLVED", "FALSE_POSITIVE"}
       THEN /\ resp' = Reply("resolve", 400, "Invalid resolution type")
            /\ UNCHANGED handlers
     ELSE IF id > Len(alerts)
       THEN /\ resp' = Reply("resolve", 404, "Alert not found")
            /\ UNCHANGED handlers
     ELSE IF alerts[id].status = "RESOLVED" \/ alerts[id].status = "FALSE_POSITIVE"
       THEN /\ resp' = Reply("resolve", 400, "Alert is already resolved")
            /\ UNCHANGED handlers
     ELSE /\ handlers' = [handlers EXCEPT ![h] =
                 [op |-> "resolve", id |-> id,
                  upd |-> resolve(alerts[id], resolvedBy, resolution)]]
          /\ UNCHANGED resp

\* the escalate route without its status guard (sensitivity variant)
EscalateRouteAnyStatus(h, id, escalatedTo) ==
  /\ resp = NoResp
  /\ UNCHANGED <<features, fallback, call>>
  /\ FirstFree(h)
  /\ UNCHANGED <<now, msec, alerts, readings, lastReading, batch, sweeps, clients, origin>>
  /\ IF escalatedTo = NoValue
       THEN /\ resp' = Reply("escalate", 400, "escalatedTo is required")
            /\ UNCHANGED handlers
     ELSE IF id > Len(alerts)
       THEN /\ resp' = Reply("escalate", 404, "Alert not found")
            /\ UNCHANGED handlers
     ELSE IF alerts[id].level >= 3
       THEN /\ resp' = Reply("escalate", 400, "Alert is already at maximum escalation level")
            /\ UNCHANGED handlers
     ELSE /\ handlers' = [handlers EXCEPT ![h] =
                 [op |-> "escalate", id |-> id,
                  upd |-> escalate(alerts[id], escalatedTo)]]
          /\ UNCHANGED resp

\* the escalate route without its level guard (sensitivity variant)
EscalateRouteAnyLevel(h, id, escalatedTo) ==
  /\ resp = NoResp
  /\ UNCHANGED <<features, fallback, call>>
  /\ FirstFree(h)
  /\ UNCHANGED <<now, msec, alerts, readings, lastReading, batch, sweeps, clients, origin>>
  /\ IF escalatedTo = NoValue
       THEN /\ resp' = Reply("escalate", 400, "escalatedTo is required")
            /\ UNCHANGED handlers
     ELSE IF id > Len(alerts)
       THEN /\ resp' = Reply("escalate", 404, "Alert not found")
            /\ UNCHANGED handlers
     ELSE IF alerts[id].status # "ACTIVE"
       THEN /\ resp' = Reply("escalate", 400, "Only active alerts can be escalated")
            /\ UNCHANGED handlers
     ELSE /\ handlers' = [handlers EXCEPT ![h] =
                 [op |-> "escalate", id |-> id,
                  upd |-> escalate(alerts[id], escalatedTo)]]
          /\ UNCHANGED resp

\* PATCH /:alertId/escalate up to the await of alert.escalate()
EscalateRoute(h, id, escalatedTo) ==
  /\ resp = NoResp
  /\ UNCHANGED <<features, fallback, call>>
  /\ FirstFree(h)
  /\ UNCHANGED <<now, msec, alerts, readings, lastReading, batch, sweeps, clients, origin>>
  /\ IF escalatedTo = NoValue
       THEN /\ resp' = Reply("escalate", 400, "escalatedTo is required")
            /\ UNCHANGED handlers
     ELSE IF id > Len(alerts)
       THEN /\ resp' = Reply("escalate", 404, "Alert not found")
            /\ UNCHANGED handlers
     ELSE IF alerts[id].status # "ACTIVE"
       THEN /\ resp' = Reply("escalate", 400, "Only active alerts can be escalated")
            /\ UNCHANGED handlers
     ELSE IF alerts[id].level >= 3
       THEN /\ resp' = Reply("escalate", 400, "Alert is already at maximum escalation level")
            /\ UNCHANGED handlers
     ELSE /\ handlers' = [handlers EXCEPT ![h] =
                 [op |-> "escalate", id |-> id,
                  upd |-> escalate(alerts[id], escalatedTo)]]
          /\ UNCHANGED resp

\* the action route refusing alerts that are no longer ACTIVE (sensitivity variant)
RecordActionRouteActiveOnly(h, id, action, takenBy) ==
  /\ resp = NoResp
  /\ UNCHANGED <<features, fallback, call>>
  /\ FirstFree(h)
  /\ UNCHANGED <<now, msec, alerts, readings, lastReading, batch, sweeps, clients, origin>>
  /\ IF action = NoValue \/ takenBy = NoValue
       THEN /\ resp' = Reply("recordAction", 400, "action and takenBy are required")
            /\ UNCHANGED handlers
     ELSE IF id > Len(alerts)
       THEN /\ resp' = Reply("recordAction", 404, "Alert not found")
            /\ UNCHANGED handlers
     ELSE IF alerts[id].status # "ACTIVE"
       THEN /\ resp' = Reply("recordAction", 400, "Only active alerts can be updated")
            /\ UNCHANGED handlers
     ELSE /\ Len(alerts[id].actionsTaken) < MaxActions
          /\ handlers' = [handlers EXCEPT ![h] =
                 [op |-> "recordAction", id |-> id,
                  upd |-> [push |-> [action |-> action, takenBy |-> takenBy,
                                     takenAt |-> SomeDate]]]]
          /\ UNCHANGED resp

\* POST /:alertId/actions up to the await of alert.save()
RecordActionRoute(h, id, action, takenBy) ==
  /\ resp = NoResp
  /\ UNCHANGED <<features, fallback, call>>
  /\ FirstFree(h)
  /\ UNCHANGED <<now, msec, alerts, readings, lastReading, batch, sweeps, clients, origin>>
  /\ IF action = NoValue \/ takenBy = NoValue
       THEN /\ resp' = Reply("recordAction", 400, "action and takenBy are required")
            /\ UNCHANGED handlers
     ELSE IF id > Len(alerts)
       THEN /\ resp' = Reply("recordAction", 404, "Alert not found")
            /\ UNCHANGED handlers
     ELSE /\ Len(alerts[id].actionsTaken) < MaxActions
          /\ handlers' = [handlers EXCEPT ![h] =
                 [op |-> "recordAction", id |-> id,
                  upd |-> [push |-> [action |-> action, takenBy |-> takenBy,
                                     takenAt |-> SomeDate]]]]
          /\ UNCHANGED resp

\* the awaited save() of a route completes and the route answers 200
RouteSave(h) ==
  /\ resp = NoResp
  /\ UNCHANGED <<features, fallback, call>>
  /\ handlers[h] # Idle
  /\ handlers[h].op \in {"acknowledge", "resolve", "escalate", "recordAction"}
  /\ Store(handlers[h].id, handlers[h].upd)
  /\ resp' = Reply(handlers[h].op, 200, NoValue)
  /\ handlers' = [handlers EXCEPT ![h] = Idle]
  /\ UNCHANGED <<now, msec, readings, lastReading, batch, sweeps, clients>>

\* POST /api/alerts: validation, sensor and reading look-ups, insert. The body
\* names neither status nor escalation (the Joi schema rejects unknown keys),
\* so the schema defaults apply; the unique index on alertId refuses a second
\* alert of the same sensor at the same Date.now()
PostAlert(sensorId, readingId, riskLevel, confidence, priority) ==
  /\ resp = NoResp
  /\ UNCHANGED <<features, fallback, call>>
  /\ Len(alerts) < MaxAlerts
  /\ UNCHANGED <<now, msec, readings, lastReading, batch, handlers, sweeps, clients>>
  /\ IF sensorId \notin Sensors
       THEN /\ resp' = Reply("createAlert", 404, "Sensor not found")
            /\ UNCHANGED <<alerts, origin>>
     ELSE IF readingId > Len(readings)
       THEN /\ resp' = Reply("createAlert", 404, "Sensor reading not found")
            /\ UNCHANGED <<alerts, origin>>
     ELSE IF \E i \in 1..Len(alerts) : alerts[i].alertId = <<Date, sensorId>>
       THEN /\ resp' = Reply("createAlert", 500, "Failed to create alert")
            /\ UNCHANGED <<alerts, origin>>
     ELSE /\ alerts' = Append(alerts,
                 Alert(<<Date, sensorId>>, sensorId, readingId, riskLevel,
                       confidence, priority,
                       readings[readingId].riskPrediction.aiModelVersion,
                       100, <<>>))
          /\ origin' = Append(origin, [priority |-> priority, escalations |-> 0])
          /\ resp' = Reply("createAlert", 201, NoValue)

\* ------------------------------------------- socket handlers (socketHandlers)

\* socket.on('authenticate'): role defaults to 'operator'; name stands for
\* the identity the event carries (name or userId), which may be missing
Authenticate(k, role, name) ==
  /\ resp = NoResp
  /\ UNCHANGED <<features, fallback, call>>
  /\ clients' = [clients EXCEPT ![k] =
                  [role |-> IF role = NoValue THEN "operator" ELSE role,
                   name |-> name]]
  /\ UNCHANGED <<now, msec, alerts, readings, lastReading, batch, handlers, sweeps,
                 resp, origin>>

\* socket.on('disconnect')
Disconnect(k) ==
  /\ resp = NoResp
  /\ UNCHANGED <<features, fallback, call>>
  /\ clients[k] # NoClient
  /\ clients' = [clients EXCEPT ![k] = NoClient]
  /\ UNCHANGED <<now, msec, alerts, readings, lastReading, batch, handlers, sweeps,
                 resp, origin>>

\* the event handler checking only that the socket has an entry, whatever its
\* role (sensitivity variant)
AcknowledgeAlertEventAnyRole(h, k, id, acknowledgedBy) ==
  /\ resp = NoResp
  /\ UNCHANGED <<features, fallback, call>>
  /\ FirstFree(h)
  /\ UNCHANGED <<now, msec, alerts, readings, lastReading, batch, sweeps, clients, origin>>
  /\ IF clients[k] = NoClient
       THEN /\ resp' = Reply("acknowledge-alert", 0, "Unauthorized to acknowledge alerts")
            /\ UNCHANGED handlers
     ELSE IF id <= Len(alerts) /\ alerts[id].status = "ACTIVE"
       THEN /\ handlers' = [handlers EXCEPT ![h] =
                 [op |-> "acknowledge-alert", id |-> id,
                  upd |-> acknowledge(alerts[id],
                            IF acknowledgedBy # NoValue THEN acknowledgedBy
                                                        ELSE clients[k].name)]]
            /\ UNCHANGED resp
     ELSE /\ resp' = Reply("acknowledge-alert", 0, NoValue)
          /\ UNCHANGED handlers

\* socket.on('acknowledge-alert') up to the await of alert.acknowledge(); the
\* actor is acknowledgedBy || client.name || client.userId, unset when the
\* event and the socket's entry carry none
AcknowledgeAlertEvent(h, k, id, acknowledgedBy) ==
  /\ resp = NoResp
  /\ UNCHANGED <<features, fallback, call>>
  /\ FirstFree(h)
  /\ UNCHANGED <<now, msec, alerts, readings, lastReading, batch, sweeps, clients, origin>>
  /\ IF clients[k] = NoClient \/ clients[k].role \notin {"operator", "supervisor"}
       THEN /\ resp' = Reply("acknowledge-alert", 0, "Unauthorized to acknowledge alerts")
            /\ UNCHANGED handlers
     ELSE IF id <= Len(alerts) /\ alerts[id].status = "ACTIVE"
       THEN /\ handlers' = [handlers EXCEPT ![h] =
                 [op |-> "acknowledge-alert", id |-> id,
                  upd |-> acknowledge(alerts[id],
                            IF acknowledgedBy # NoValue THEN acknowledgedBy
                                                        ELSE clients[k].name)]]
            /\ UNCHANGED resp
     ELSE /\ resp' = Reply("acknowledge-alert", 0, NoValue)
          /\ UNCHANGED handlers

\* the awaited acknowledge() of the socket handler completes; the handler
\* broadcasts alert-acknowledged
EventSave(h) ==
  /\ resp = NoResp
  /\ UNCHANGED <<features, fallback, call>>
  /\ handlers[h] # Idle
  /\ handlers[h].op = "acknowledge-alert"
  /\ Store(handlers[h].id, handlers[h].upd)
  /\ resp' = Reply("acknowledge-alert", 0, "alert-acknowledged")
  /\ handlers' = [handlers EXCEPT ![h] = Idle]
  /\ UNCHANGED <<now, msec, readings, lastReading, batch, sweeps, clients>>

\* ------------------------------------------------ clock and periodic sweep

\* time passes inside the current minute
MsPass ==
  /\ resp = NoResp
  /\ UNCHANGED <<features, fallback, call>>
  /\ msec < MaxMsec
  /\ msec' = msec + 1
  /\ UNCHANGED <<now, alerts, readings, lastReading, batch, handlers, sweeps, clients,
                 resp, origin>>

\* the minute ends: the setInterval callback fires and its query loads the
\* alerts needing escalation; nothing stops it while an earlier run is still
\* in its loop
Tick(s) ==
  /\ resp = NoResp
  /\ UNCHANGED <<features, fallback, call>>
  /\ now < MaxNow
  /\ sweeps[s] = <<>>
  /\ \A r \in 1..MaxSweeps : r < s => sweeps[r] # <<>>
  /\ now' = now + 1
  /\ msec' = 0
  /\ sweeps' = [sweeps EXCEPT ![s] = getAlertsNeedingEscalation(1, <<now + 1, 0>>)]
  /\ UNCHANGED <<alerts, readings, lastReading, batch, handlers, clients, resp, origin>>

\* one iteration of the sweep's loop: await alert.escalate(...) on the next
\* loaded document
SweepEscalate(s) ==
  /\ resp = NoResp
  /\ UNCHANGED <<features, fallback, call>>
  /\ sweeps[s] # <<>>
  /\ Store(Head(sweeps[s]).id, escalate(Head(sweeps[s]), SweepActor))
  /\ sweeps' = [sweeps EXCEPT ![s] = Tail(@)]
  /\ UNCHANGED <<now, msec, readings, lastReading, batch, handlers, clients, resp>>

\* ------------------------------------------ prediction client (aiService.js)

retryAttempts == 3

retryDelay == 1000

RECURSIVE Pow2(_)
Pow2(n) == IF n = 0 THEN 1 ELSE 2 * Pow2(n - 1)

\* AIService.retryRequest over the outcomes of the successive attempts:
\* "ok" returns; "4xx" (error.response.status in 400..499) rethrows at once;
\* any other failure sleeps retryDelay * 2^(attempt-1) unless it was the last
RECURSIVE retryFrom(_, _, _)
retryFrom(script, attempt, delays) ==
  IF attempt > retryAttempts
    THEN [ok |-> FALSE, attempts |-> retryAttempts, delays |-> delays]
  ELSE IF script[attempt] = "ok"
    THEN [ok |-> TRUE, attempts |-> attempt, delays |-> delays]
  ELSE IF script[attempt] = "4xx"
    THEN [ok |-> FALSE, attempts |-> attempt, delays |-> delays]
  ELSE IF attempt < retryAttempts
    THEN retryFrom(script, attempt + 1,
                   Append(delays, retryDelay * Pow2(attempt - 1)))
  ELSE retryFrom(script, attempt + 1, delays)

retryRequest(script) == retryFrom(script, 1, <<>>)

\* the names the alert and reading schemas accept as factors
FactorNames ==
  {"Rainfall_mm", "Slope_Angle", "Soil_Saturation", "Vegetation_Cover",
   "Earthquake_Activity", "Proximity_to_Water", "Landslide",
   "Soil_Type_Gravel", "Soil_Type_Sand", "Soil_Type_Silt"}

\* factorMapping[factor] || factor
factorMapping(f) ==
  CASE f = "rainfall_mm" -> "Rainfall_mm"
    [] f = "slope_angle" -> "Slope_Angle"
    [] f = "soil_saturation" -> "Soil_Saturation"
    [] f = "vegetation_cover" -> "Vegetation_Cover"
    [] f = "earthquake_activity" -> "Earthquake_Activity"
    [] f = "proximity_to_water" -> "Proximity_to_Water"
    [] f = "landslide" -> "Landslide"
    [] f = "soil_type_gravel" -> "Soil_Type_Gravel"
    [] f = "soil_type_sand" -> "Soil_Type_Sand"
    [] f = "soil_type_silt" -> "Soil_Type_Silt"
    [] OTHER -> f

\* Math.round(confidence * 1000) / 1000 on a confidence scaled by 10000
round3(c) == ((c + 5) \div 10) * 10

\* AIService.validatePredictionResponse: ok = FALSE where it throws
validatePredictionResponse(response) ==
  IF DOMAIN response = {}
    THEN [ok |-> FALSE, error |-> "Empty response from AI service"]
  ELSE IF "risk_level" \notin DOMAIN response
          \/ response.risk_level \notin {"LOW", "MEDIUM", "HIGH"}
    THEN [ok |-> FALSE, error |-> "Invalid risk level"]
  ELSE IF "confidence" \notin DOMAIN response \/ response.confidence < 0
          \/ response.confidence > 10000
    THEN [ok |-> FALSE, error |-> "Invalid confidence score"]
  ELSE [ok |-> TRUE, level |-> response.risk_level,
        confidence |-> round3(response.confidence),
        factors |-> [i \in 1..Len(response.contributing_factors) |->
                       factorMapping(response.contributing_factors[i])],
        aiModelVersion |-> IF response.model_version = NoValue THEN "1.0"
                           ELSE response.model_version]

\* AIService.getPrediction: the retried request, then the validation of the
\* response it returned (outside the retry loop); ok = FALSE where it throws
getPrediction(script, response) ==
  IF retryRequest(script).ok /\ validatePredictionResponse(response).ok
    THEN validatePredictionResponse(response)
    ELSE [ok |-> FALSE, error |-> "AI prediction failed"]

\* ------------------------------ the client call, attempt by attempt

maxBatchPredictions == 50

\* the prediction object of item i of the batch answer
batchItem(c, i) ==
  IF i = c.bad
    THEN [risk_level |-> "EXTREME", confidence |-> 9000,
          contributing_factors |-> <<>>, model_version |-> "2.1"]
    ELSE [risk_level |-> "LOW", confidence |-> 8000,
          contributing_factors |-> <<>>, model_version |-> "2.1"]

\* the other variables, which a client call does not touch
rest == <<now, msec, alerts, readings, lastReading, batch, handlers, sweeps,
          clients, resp, origin, features, fallback>>

\* AIService.getPrediction up to the first request
StartPrediction ==
  /\ call.phase = "start"
  /\ call.kind = "predict"
  /\ call' = [call EXCEPT !.phase = "attempt", !.attempt = 1]
  /\ UNCHANGED rest

\* the size limit raised to 100 (sensitivity variant)
StartBatchLimit100 ==
  /\ call.phase = "start"
  /\ call.kind = "batch"
  /\ call' = IF ~call.arg.isArray \/ call.arg.length = 0
               THEN [call EXCEPT !.phase = "thrown",
                                 !.error = "Invalid sensor data array"]
             ELSE IF call.arg.length > 100
               THEN [call EXCEPT !.phase = "thrown",
                                 !.error = "Maximum 50 predictions per batch"]
             ELSE [call EXCEPT !.phase = "attempt", !.attempt = 1]
  /\ UNCHANGED rest

\* AIService.getBatchPredictions up to the first request
StartBatch ==
  /\ call.phase = "start"
  /\ call.kind = "batch"
  /\ call' = IF ~call.arg.isArray \/ call.arg.length = 0
               THEN [call EXCEPT !.phase = "thrown",
                                 !.error = "Invalid sensor data array"]
             ELSE IF call.arg.length > maxBatchPredictions
               THEN [call EXCEPT !.phase = "thrown",
                                 !.error = "Maximum 50 predictions per batch"]
             ELSE [call EXCEPT !.phase = "attempt", !.attempt = 1]
  /\ UNCHANGED rest

\* the loop body retrying client errors too (sensitivity variant)
AttemptRetryingClientErrors ==
  /\ call.phase = "attempt"
  /\ call' =
       IF call.script[call.attempt] = "ok"
         THEN [call EXCEPT !.requests = @ + 1, !.phase = "validate"]
       ELSE IF call.attempt < retryAttempts
         THEN [call EXCEPT !.requests = @ + 1, !.phase = "sleep"]
       ELSE [call EXCEPT !.requests = @ + 1, !.phase = "thrown",
                         !.error = "request failed"]
  /\ UNCHANGED rest

\* one pass of the loop of AIService.retryRequest: the request and its catch
Attempt ==
  /\ call.phase = "attempt"
  /\ call' =
       IF call.script[call.attempt] = "ok"
         THEN [call EXCEPT !.requests = @ + 1, !.phase = "validate"]
       ELSE IF call.script[call.attempt] = "4xx"
         THEN [call EXCEPT !.requests = @ + 1, !.phase = "thrown",
                           !.error = "request failed"]
       ELSE IF call.attempt < retryAttempts
         THEN [call EXCEPT !.requests = @ + 1, !.phase = "sleep"]
       ELSE [call EXCEPT !.requests = @ + 1, !.phase = "thrown",
                         !.error = "request failed"]
  /\ UNCHANGED rest

\* the backoff without the power of two (sensitivity variant)
SleepFixed ==
  /\ call.phase = "sleep"
  /\ call' = [call EXCEPT !.delays = Append(@, retryDelay),
                          !.attempt = @ + 1, !.phase = "attempt"]
  /\ UNCHANGED rest

\* await this.sleep(retryDelay * 2^(attempt - 1)), then the next pass
Sleep ==
  /\ call.phase = "sleep"
  /\ call' = [call EXCEPT !.delays = Append(@, retryDelay * Pow2(call.attempt - 1)),
                          !.attempt = @ + 1, !.phase = "attempt"]
  /\ UNCHANGED rest

\* getPrediction after retryRequest has returned: the validation of the answer
ValidatePrediction ==
  /\ call.phase = "validate"
  /\ call.kind = "predict"
  /\ call' = IF validatePredictionResponse(call.response).ok
               THEN [call EXCEPT !.phase = "returned",
                                 !.result = validatePredictionResponse(call.response)]
               ELSE [call EXCEPT !.phase = "thrown",
                                 !.error = "AI prediction failed"]
  /\ UNCHANGED rest

\* getBatchPredictions after retryRequest has returned: every item validated
ValidateBatch ==
  /\ call.phase = "validate"
  /\ call.kind = "batch"
  /\ call' = IF \A i \in 1..call.arg.length :
                  validatePredictionResponse(batchItem(call, i)).ok
               THEN [call EXCEPT !.phase = "returned"]
               ELSE [call EXCEPT !.phase = "thrown",
                                 !.error = "AI batch prediction failed"]
  /\ UNCHANGED rest

\* ------------------------------------- fallback classifier (sensorReadings.js)

\* the rule table with the slope rule made non-strict (sensitivity variant)
fallbackRulesSlopeAtLeast(r) ==
  <<[holds |-> r.Slope_Angle >= 50, points |-> 30, factor |-> "Slope_Angle"],
    [holds |-> r.Rainfall_mm > 50, points |-> 25, factor |-> "Rainfall_mm"],
    [holds |-> r.Earthquake_Activity > 20, points |-> 20,
     factor |-> "Earthquake_Activity"],
    [holds |-> r.Soil_Saturation > 70, points |-> 15, factor |-> "Soil_Saturation"],
    [holds |-> r.Vegetation_Cover < 30, points |-> 10, factor |-> "Vegetation_Cover"],
    [holds |-> r.Proximity_to_Water < 50, points |-> 10,
     factor |-> "Proximity_to_Water"],
    [holds |-> r.Landslide > 50, points |-> 25, factor |-> "Landslide"],
    [holds |-> r.Soil_Type_Sand /\ r.Soil_Saturation > 50, points |-> 5,
     factor |-> "Soil_Type_Sand"],
    [holds |-> r.Soil_Type_Silt /\ r.Rainfall_mm > 30, points |-> 8,
     factor |-> "Soil_Type_Silt"]>>

\* the rule table of generateFallbackPrediction, in the order of its ifs
fallbackRules(r) ==
  <<[holds |-> r.Slope_Angle > 50, points |-> 30, factor |-> "Slope_Angle"],
    [holds |-> r.Rainfall_mm > 50, points |-> 25, factor |-> "Rainfall_mm"],
    [holds |-> r.Earthquake_Activity > 20, points |-> 20,
     factor |-> "Earthquake_Activity"],
    [holds |-> r.Soil_Saturation > 70, points |-> 15, factor |-> "Soil_Saturation"],
    [holds |-> r.Vegetation_Cover < 30, points |-> 10, factor |-> "Vegetation_Cover"],
    [holds |-> r.Proximity_to_Water < 50, points |-> 10,
     factor |-> "Proximity_to_Water"],
    [holds |-> r.Landslide > 50, points |-> 25, factor |-> "Landslide"],
    [holds |-> r.Soil_Type_Sand /\ r.Soil_Saturation > 50, points |-> 5,
     factor |-> "Soil_Type_Sand"],
    [holds |-> r.Soil_Type_Silt /\ r.Rainfall_mm > 30, points |-> 8,
     factor |-> "Soil_Type_Silt"]>>

RECURSIVE riskScore(_, _)
riskScore(rules, i) ==
  IF i > Len(rules) THEN 0
  ELSE (IF rules[i].holds THEN rules[i].points ELSE 0) + riskScore(rules, i + 1)

\* the factor list built by unshift instead of push (sensitivity variant)
RECURSIVE riskFactorsReversed(_, _)
riskFactorsReversed(rules, i) ==
  IF i > Len(rules) THEN <<>>
  ELSE riskFactorsReversed(rules, i + 1)
         \o (IF rules[i].holds THEN <<rules[i].factor>> ELSE <<>>)

RECURSIVE riskFactors(_, _)
riskFactors(rules, i) ==
  IF i > Len(rules) THEN <<>>
  ELSE (IF rules[i].holds THEN <<rules[i].factor>> ELSE <<>>)
         \o riskFactors(rules, i + 1)

generateFallbackPrediction(r) ==
  LET score == riskScore(fallbackRules(r), 1)
  IN [ok |-> TRUE,
      level |-> IF score >= 60 THEN "HIGH" ELSE IF score >= 30 THEN "MEDIUM" ELSE "LOW",
      confidence |-> IF score >= 60 THEN 7000 ELSE IF score >= 30 THEN 6000 ELSE 8000,
      factors |-> riskFactors(fallbackRules(r), 1),
      aiModelVersion |-> "fallback-2.0"]

\* ------------------------------------------------------ reading ingestion

\* min and max of the numeric fields of readingValidationSchema.readings, in
\* schema order; Proximity_to_Water has no max
rangeChecks ==
  <<<<"Rainfall_mm", 0, 1000>>, <<"Slope_Angle", 0, 90>>,
    <<"Soil_Saturation", 0, 100>>, <<"Vegetation_Cover", 0, 100>>,
    <<"Earthquake_Activity", 0, 100>>, <<"Proximity_to_Water", 0>>,
    <<"Landslide", 0, 100>>>>

\* the fields among checks whose value is out of range, in order
RECURSIVE outOfRange(_, _)
outOfRange(r, checks) ==
  IF checks = <<>> THEN <<>>
  ELSE (IF \/ r[Head(checks)[1]] < Head(checks)[2]
           \/ (Len(Head(checks)) = 3 /\ r[Head(checks)[1]] > Head(checks)[3])
          THEN <<Head(checks)[1]>> ELSE <<>>) \o outOfRange(r, Tail(checks))

\* readingValidationSchema.validate(body).error.details: Joi stops at the
\* first failure (abortEarly is left at its default)
validate(r) ==
  IF outOfRange(r, rangeChecks) = <<>> THEN <<>>
  ELSE <<Head(outOfRange(r, rangeChecks))>>

\* the mongoose enum validator on riskPrediction.factors / triggerFactors
factorsValid(factors) == \A i \in 1..Len(factors) : factors[i] \in FactorNames

\* aiService.getPrediction(value) with the route's catch: the fallback takes
\* over whenever the client throws
routePrediction(r, script, response) ==
  IF getPrediction(script, response).ok THEN getPrediction(script, response)
  ELSE generateFallbackPrediction(r)

SensorReading(sensorId, r, prediction, source) ==
  [sensorId |-> sensorId, timestamp |-> Date, readings |-> r,
   riskPrediction |-> [level |-> prediction.level,
                       confidence |-> prediction.confidence,
                       factors |-> prediction.factors,
                       aiModelVersion |-> prediction.aiModelVersion],
   source |-> source]

\* what is known of the client call a request made: the requests it sent
\* and whether the caller went on to generateFallbackPrediction
routeCall(script, response) ==
  [phase |-> "done", requests |-> retryRequest(script).attempts,
   fellBack |-> ~getPrediction(script, response).ok]

\* the route classifying before it looks the sensor up (sensitivity variant)
PostReadingClassifyFirst(sensorId, r, script, response) ==
  /\ resp = NoResp
  /\ UNCHANGED <<features, fallback>>
  /\ Len(readings) < MaxReadings
  /\ UNCHANGED <<now, msec, alerts, batch, handlers, sweeps, clients, origin>>
  /\ IF validate(r) # <<>>
       THEN /\ resp' = [Reply("POST /api/readings", 400, "Validation failed")
                          EXCEPT !.details = validate(r)]
            /\ UNCHANGED <<readings, lastReading, call>>
     ELSE IF sensorId \notin Sensors
       THEN /\ resp' = Reply("POST /api/readings", 404, "Sensor not found")
            /\ call' = routeCall(script, response)
            /\ UNCHANGED <<readings, lastReading>>
     ELSE IF ~factorsValid(routePrediction(r, script, response).factors)
       THEN /\ resp' = Reply("POST /api/readings", 500, "Failed to create reading")
            /\ call' = routeCall(script, response)
            /\ UNCHANGED <<readings, lastReading>>
     ELSE /\ readings' = Append(readings,
                 SensorReading(sensorId, r, routePrediction(r, script, response),
                               "SENSOR"))
          /\ lastReading' = [lastReading EXCEPT ![sensorId] = Date]
          /\ call' = routeCall(script, response)
          /\ resp' = Reply("POST /api/readings", 201, NoValue)

\* POST /api/readings
PostReading(sensorId, r, script, response) ==
  /\ resp = NoResp
  /\ UNCHANGED <<features, fallback>>
  /\ Len(readings) < MaxReadings
  /\ UNCHANGED <<now, msec, alerts, batch, handlers, sweeps, clients, origin>>
  /\ IF validate(r) # <<>>
       THEN /\ resp' = [Reply("POST /api/readings", 400, "Validation failed")
                          EXCEPT !.details = validate(r)]
            /\ UNCHANGED <<readings, lastReading, call>>
     ELSE IF sensorId \notin Sensors
       THEN /\ resp' = Reply("POST /api/readings", 404, "Sensor not found")
            /\ UNCHANGED <<readings, lastReading, call>>
     ELSE IF ~factorsValid(routePrediction(r, script, response).factors)
       THEN /\ resp' = Reply("POST /api/readings", 500, "Failed to create reading")
            /\ call' = routeCall(script, response)
            /\ UNCHANGED <<readings, lastReading>>
     ELSE /\ readings' = Append(readings,
                 SensorReading(sensorId, r, routePrediction(r, script, response),
                               "SENSOR"))
          /\ lastReading' = [lastReading EXCEPT ![sensorId] = Date]
          /\ call' = routeCall(script, response)
          /\ resp' = Reply("POST /api/readings", 201, NoValue)

\* POST /api/readings/batch: the checks on the array
BatchStart(n) ==
  /\ resp = NoResp
  /\ UNCHANGED <<features, fallback, call>>
  /\ ~batch.open
  /\ UNCHANGED <<now, msec, alerts, readings, lastReading, handlers, sweeps,
                 clients, origin>>
  /\ IF n = 0
       THEN /\ resp' = Reply("POST /api/readings/batch", 400, "Readings array is required")
            /\ UNCHANGED batch
     ELSE IF n > 100
       THEN /\ resp' = Reply("POST /api/readings/batch", 400, "Maximum 100 readings per batch")
            /\ UNCHANGED batch
     ELSE /\ batch' = [open |-> TRUE, left |-> n, successful |-> 0, failed |-> 0]
          /\ UNCHANGED resp

\* one iteration of the batch loop
BatchItem(sensorId, r, script, response) ==
  /\ resp = NoResp
  /\ UNCHANGED <<features, fallback>>
  /\ batch.open
  /\ batch.left > 0
  /\ Len(readings) < MaxReadings
  /\ UNCHANGED <<now, msec, alerts, handlers, sweeps, clients, resp, origin>>
  /\ IF validate(r) # <<>> \/ sensorId \notin Sensors
       THEN /\ batch' = [batch EXCEPT !.left = @ - 1, !.failed = @ + 1]
            /\ UNCHANGED <<readings, lastReading, call>>
     ELSE IF ~factorsValid(routePrediction(r, script, response).factors)
       THEN /\ batch' = [batch EXCEPT !.left = @ - 1, !.failed = @ + 1]
            /\ call' = routeCall(script, response)
            /\ UNCHANGED <<readings, lastReading>>
     ELSE /\ readings' = Append(readings,
                 SensorReading(sensorId, r, routePrediction(r, script, response),
                               "SENSOR"))
          /\ lastReading' = [lastReading EXCEPT ![sensorId] = Date]
          /\ call' = routeCall(script, response)
          /\ batch' = [batch EXCEPT !.left = @ - 1, !.successful = @ + 1]

\* the batch loop is over: 201 with the counts
BatchEnd ==
  /\ resp = NoResp
  /\ UNCHANGED <<features, fallback, call>>
  /\ batch.open
  /\ batch.left = 0
  /\ batch' = NoBatch
  /\ resp' = Reply("POST /api/readings/batch", 201, NoValue)
  /\ UNCHANGED <<now, msec, alerts, readings, lastReading, handlers, sweeps,
                 clients, origin>>

\* alertThresholds of a seeded sensor (schema defaults); no entry for the
\* soil types, so || 0 applies
alertThreshold(factor) ==
  CASE factor = "Rainfall_mm" -> 50
    [] factor = "Slope_Angle" -> 60
    [] factor = "Soil_Saturation" -> 70
    [] factor = "Vegetation_Cover" -> 30
    [] factor = "Earthquake_Activity" -> 20
    [] factor = "Proximity_to_Water" -> 100
    [] factor = "Landslide" -> 50
    [] OTHER -> 0

\* reading.readings[factor] || 0, cast to the schema's Number
factorValue(r, factor) ==
  IF factor \notin DOMAIN r THEN 0
  ELSE IF factor \in {"Soil_Type_Gravel", "Soil_Type_Sand", "Soil_Type_Silt"}
    THEN (IF r[factor] THEN 1 ELSE 0)
  ELSE r[factor]

\* BackendSensorSimulator.generateAlert: the document it builds
generateAlert(sensorId, readingId, r, prediction) ==
  [Alert(<<Date, sensorId>>, sensorId, readingId, prediction.level,
         prediction.confidence, "CRITICAL", NoValue, 200,
         [i \in 1..Len(prediction.factors) |->
            [factor |-> prediction.factors[i],
             value |-> factorValue(r, prediction.factors[i]),
             threshold |-> alertThreshold(prediction.factors[i]),
             severity |-> prediction.level]])
   EXCEPT !.status = "ACTIVE"]

\* BackendSensorSimulator.generateSensorReading for one loaded sensor: no
\* catch around getPrediction other than the one that rethrows
GenerateSensorReading(sensorId, r, script, response) ==
  /\ resp = NoResp
  /\ UNCHANGED <<features, fallback>>
  /\ call' = [routeCall(script, response) EXCEPT !.fellBack = FALSE]
  /\ Len(readings) < MaxReadings
  /\ UNCHANGED <<now, msec, batch, handlers, sweeps, clients>>
  /\ LET p == getPrediction(script, response)
         stored == SensorReading(sensorId, r,
                     [p EXCEPT !.aiModelVersion = "1.0"], "BACKEND_SIMULATION")
     IN IF ~p.ok
          THEN /\ resp' = Reply("generateSensorReading", 0, p.error)
               /\ UNCHANGED <<alerts, readings, lastReading, origin>>
        ELSE IF ~factorsValid(p.factors)
          THEN /\ resp' = Reply("generateSensorReading", 0, "SensorReading validation failed")
               /\ UNCHANGED <<alerts, readings, lastReading, origin>>
        ELSE /\ readings' = Append(readings, stored)
             /\ lastReading' = [lastReading EXCEPT ![sensorId] = Date]
             /\ IF p.level = "HIGH" /\ p.confidence > 5000
                  THEN IF \E i \in 1..Len(alerts) : alerts[i].alertId = <<Date, sensorId>>
                         THEN /\ resp' = Reply("generateSensorReading", 0, "duplicate alertId")
                              /\ UNCHANGED <<alerts, origin>>
                         ELSE /\ alerts' = Append(alerts,
                                   generateAlert(sensorId, Len(readings) + 1, r, p))
                              /\ origin' = Append(origin, [priority |-> "CRITICAL",
                                                           escalations |-> 0])
                              /\ resp' = Reply("generateSensorReading", 0, "alert-trigger")
                  ELSE /\ resp' = Reply("generateSensorReading", 0, "sensor-reading")
                       /\ UNCHANGED <<alerts, origin>>

\* ---- inputs of the ingestion paths

HighRiskVector ==
  [Rainfall_mm |-> 85, Slope_Angle |-> 72, Soil_Saturation |-> 85,
   Vegetation_Cover |-> 15, Earthquake_Activity |-> 32, Proximity_to_Water |-> 25,
   Landslide |-> 75, Soil_Type_Gravel |-> FALSE, Soil_Type_Sand |-> FALSE,
   Soil_Type_Silt |-> TRUE]

LowRiskVector ==
  [Rainfall_mm |-> 5, Slope_Angle |-> 25, Soil_Saturation |-> 20,
   Vegetation_Cover |-> 80, Earthquake_Activity |-> 1, Proximity_to_Water |-> 500,
   Landslide |-> 10, Soil_Type_Gravel |-> TRUE, Soil_Type_Sand |-> FALSE,
   Soil_Type_Silt |-> FALSE]

SteepSlopeVector == [LowRiskVector EXCEPT !.Slope_Angle = 51]

OutOfRangeVector == [LowRiskVector EXCEPT !.Slope_Angle = 95, !.Soil_Saturation = 150]

ValidVectors == {HighRiskVector, LowRiskVector, SteepSlopeVector}

Vectors == ValidVectors \cup {OutOfRangeVector}

\* outcomes of the three attempts the client may make
Scripts ==
  {<<"ok", "ok", "ok">>, <<"timeout", "ok", "ok">>,
   <<"timeout", "5xx", "ECONNREFUSED">>, <<"4xx", "ok", "ok">>,
   <<"5xx", "4xx", "ok">>}

\* bodies the prediction service may answer with
Responses ==
  {[risk_level |-> "HIGH", confidence |-> 9342,
    contributing_factors |-> <<"rainfall_mm", "slope_angle">>, model_version |-> "2.1"],
   [risk_level |-> "HIGH", confidence |-> 4000,
    contributing_factors |-> <<>>, model_version |-> "2.1"],
   [risk_level |-> "LOW", confidence |-> 8000,
    contributing_factors |-> <<>>, model_version |-> NoValue],
   [risk_level |-> "MEDIUM", confidence |-> 6000,
    contributing_factors |-> <<"wind_speed">>, model_version |-> "2.1"],
   [risk_level |-> "EXTREME", confidence |-> 9000,
    contributing_factors |-> <<>>, model_version |-> "2.1"],
   [risk_level |-> "HIGH", contributing_factors |-> <<>>, model_version |-> "2.1"],
   <<>>}

\* ------------------------------------------------------------ specifications

\* the reading POST /api/readings stores for HighRiskVector at date <<0, 0>>
\* when the predictor is down (the collections outlive the process)
StoredReading ==
  SensorReading("S1", HighRiskVector, generateFallbackPrediction(HighRiskVector),
                "SENSOR")

InitAlerts ==
  /\ now = 0
  /\ msec = 0
  /\ alerts = <<>>
  /\ readings = <<StoredReading>>
  /\ lastReading = [s \in Sensors |-> <<0, 0>>]
  /\ batch = NoBatch
  /\ handlers = [h \in 1..MaxHandlers |-> Idle]
  /\ sweeps = [s \in 1..MaxSweeps |-> <<>>]
  /\ clients = [k \in Sockets |-> NoClient]
  /\ resp = NoResp
  /\ origin = <<>>
  /\ features = NoValue
  /\ fallback = NoPrediction
  /\ call = NoCall

NextAlerts ==
  \/ Flush
  \/ \E sensorId \in SensorIds, readingId \in 1..(MaxReadings + 1),
        priority \in Priorities :
       Len(alerts) < LifecycleAlerts
         /\ PostAlert(sensorId, readingId, "HIGH", 7000, priority)
  \/ \E h \in 1..MaxHandlers, id \in 1..(LifecycleAlerts + 1) :
       \/ \E by \in Actors \cup {NoValue} : AcknowledgeRoute(h, id, by)
       \/ \E by \in Actors \cup {NoValue}, r \in Resolutions : ResolveRoute(h, id, by, r)
       \/ \E to \in Actors \cup {NoValue} : EscalateRoute(h, id, to)
       \/ \E by \in Actors \cup {NoValue} :
            /\ IF id > Len(alerts) THEN TRUE
                 ELSE Len(alerts[id].actionsTaken) < LifecycleActions
            /\ RecordActionRoute(h, id, "evacuate", by)
  \/ \E h \in 1..MaxHandlers : RouteSave(h)
  \/ \E s \in 1..LifecycleSweeps : (now < LifecycleNow /\ Tick(s)) \/ SweepEscalate(s)

SpecAlerts == InitAlerts /\ [][NextAlerts]_vars

NextIngest ==
  \/ Flush
  \/ MsPass
  \/ \E sensorId \in SensorIds, r \in Vectors, script \in Scripts,
        response \in Responses :
       \/ PostReading(sensorId, r, script, response)
       \/ BatchItem(sensorId, r, script, response)
  \/ \E n \in {0, MaxBatch, 101} : BatchStart(n)
  \/ BatchEnd
  \/ \E sensorId \in Sensors, r \in ValidVectors, script \in Scripts,
        response \in Responses :
       GenerateSensorReading(sensorId, r, script, response)

SpecIngest == Init /\ [][NextIngest]_vars

\* the acknowledgement paths side by side: the PATCH route and the socket event
NextSocket ==
  \/ Flush
  \/ \E sensorId \in Sensors, priority \in {"HIGH", "CRITICAL"} :
       Len(alerts) < LifecycleAlerts /\ PostAlert(sensorId, 1, "HIGH", 7000, priority)
  \/ \E k \in Sockets, role \in Roles \cup {NoValue}, name \in Actors \cup {NoValue} :
       Authenticate(k, role, name)
  \/ \E k \in Sockets : Disconnect(k)
  \/ \E h \in 1..MaxHandlers, id \in 1..LifecycleAlerts + 1 :
       \/ \E by \in Actors \cup {NoValue} : AcknowledgeRoute(h, id, by)
       \/ \E by \in Actors, r \in {"RESOLVED", "FALSE_POSITIVE"} :
            ResolveRoute(h, id, by, r)
       \/ \E k \in Sockets, by \in Actors \cup {NoValue} :
            AcknowledgeAlertEvent(h, k, id, by)
  \/ \E h \in 1..MaxHandlers : RouteSave(h) \/ EventSave(h)

SpecSocket == InitAlerts /\ [][NextSocket]_vars

\* the periodic sweep over a longer stretch of time, beside the creation of
\* alerts and the acknowledge route
NextSweep ==
  \/ Flush
  \/ MsPass
  \/ \E priority \in Priorities : PostAlert("S1", 1, "HIGH", 7000, priority)
  \/ \E id \in 1..MaxAlerts : AcknowledgeRoute(1, id, "op1")
  \/ RouteSave(1)
  \/ \E s \in 1..MaxSweeps : Tick(s) \/ SweepEscalate(s)

SpecSweep == InitAlerts /\ [][NextSweep]_vars

\* readings at, just below and just above every threshold of the rule table
FeatureVectors ==
  [Slope_Angle : {50, 51}, Rainfall_mm : {30, 31, 50, 51},
   Earthquake_Activity : {20, 21}, Soil_Saturation : {50, 51, 70, 71},
   Vegetation_Cover : {29, 30}, Proximity_to_Water : {49, 50},
   Landslide : {50, 51}, Soil_Type_Sand : BOOLEAN, Soil_Type_Silt : BOOLEAN,
   Soil_Type_Gravel : {FALSE}]

\* a caller is about to pass a validated readings object to the classifier
InitFallback ==
  /\ now = 0
  /\ msec = 0
  /\ alerts = <<>>
  /\ readings = <<>>
  /\ lastReading = [s \in Sensors |-> NoDate]
  /\ batch = NoBatch
  /\ handlers = [h \in 1..MaxHandlers |-> Idle]
  /\ sweeps = [s \in 1..MaxSweeps |-> <<>>]
  /\ clients = [k \in Sockets |-> NoClient]
  /\ resp = NoResp
  /\ origin = <<>>
  /\ features \in FeatureVectors
  /\ fallback = NoPrediction
  /\ call = NoCall

\* the call of generateFallbackPrediction(readings) returns
Classify ==
  /\ ~fallback.ok
  /\ fallback' = generateFallbackPrediction(features)
  /\ UNCHANGED <<now, msec, alerts, readings, lastReading, batch, handlers,
                 sweeps, clients, resp, origin, features, call>>

NextFallback == Classify

SpecFallback == InitFallback /\ [][NextFallback]_vars

\* what each of the attempts of a call meets
Outcomes == {"ok", "timeout", "5xx", "4xx"}

\* the arguments getBatchPredictions is called with: not an array, or an array
\* of the given length
BatchArgs ==
  {[isArray |-> FALSE, length |-> 0]}
    \cup {[isArray |-> TRUE, length |-> n] :
            n \in {0, 1, 2, maxBatchPredictions, maxBatchPredictions + 1}}

\* a call of getPrediction or getBatchPredictions is about to start
Call(kind, script, response, arg, bad) ==
  [kind |-> kind, script |-> script, response |-> response, arg |-> arg,
   bad |-> bad, phase |-> "start", attempt |-> 0, requests |-> 0,
   delays |-> <<>>, result |-> NoPrediction, error |-> NoValue]

InitClient ==
  /\ now = 0
  /\ msec = 0
  /\ alerts = <<>>
  /\ readings = <<>>
  /\ lastReading = [s \in Sensors |-> NoDate]
  /\ batch = NoBatch
  /\ handlers = [h \in 1..MaxHandlers |-> Idle]
  /\ sweeps = [s \in 1..MaxSweeps |-> <<>>]
  /\ clients = [k \in Sockets |-> NoClient]
  /\ resp = NoResp
  /\ origin = <<>>
  /\ features = NoValue
  /\ fallback = NoPrediction
  /\ \E script \in [1..retryAttempts -> Outcomes] :
       \/ \E response \in Responses :
            call = Call("predict", script, response,
                        [isArray |-> FALSE, length |-> 0], 0)
       \/ \E arg \in BatchArgs, bad \in 0..2 :
            /\ bad <= arg.length
            /\ call = Call("batch", script, <<>>, arg, bad)

NextClient ==
  \/ StartPrediction
  \/ StartBatch
  \/ Attempt
  \/ Sleep
  \/ ValidatePrediction
  \/ ValidateBatch

SpecClient == InitClient /\ [][NextClient]_vars

\* the two places that construct an alert: the simulator and POST /api/alerts
NextCreate ==
  \/ Flush
  \/ MsPass
  \/ \E r \in ValidVectors, script \in Scripts, response \in Responses :
       GenerateSensorReading("S1", r, script, response)
  \/ \E sensorId \in SensorIds, readingId \in 1..(MaxReadings + 1),
        riskLevel \in RiskLevels, priority \in Priorities :
       PostAlert(sensorId, readingId, riskLevel, 7000, priority)

SpecCreate == Init /\ [][NextCreate]_vars

\* one alert, its acknowledgement and resolution, and the action log
NextActions ==
  \/ Flush
  \/ \E priority \in Priorities :
       Len(alerts) < LifecycleAlerts /\ PostAlert("S1", 1, "HIGH", 7000, priority)
  \/ \E h \in 1..MaxHandlers, id \in 1..(LifecycleAlerts + 1) :
       \/ AcknowledgeRoute(h, id, "op1")
       \/ \E r \in Resolutions : ResolveRoute(h, id, "op1", r)
       \/ \E action \in Actions \cup {NoValue}, by \in Actors \cup {NoValue} :
            RecordActionRoute(h, id, action, by)
  \/ \E h \in 1..MaxHandlers : RouteSave(h)

SpecActions == InitAlerts /\ [][NextActions]_vars

\* one alert, its acknowledgement and the sweep, the timer firing every minute
NextEscalation ==
  \/ Flush
  \/ MsPass
  \/ \E priority \in Priorities :
       Len(alerts) < LifecycleAlerts /\ PostAlert("S1", 1, "HIGH", 7000, priority)
  \/ AcknowledgeRoute(1, 1, "op1")
  \/ RouteSave(1)
  \/ \E s \in 1..MaxSweeps : Tick(s) \/ SweepEscalate(s)

\* setInterval fires every minute whatever requests are in flight, and a
\* started sweep runs on to the end of its list
SpecEscalation ==
  /\ InitAlerts
  /\ [][NextEscalation]_vars
  /\ WF_vars(Flush)
  /\ SF_vars(\E s \in 1..MaxSweeps : Tick(s))
  /\ SF_vars(\E s \in 1..MaxSweeps : SweepEscalate(s))

\* ------------------------------------------------------- alert lifecycle

\* a request refused by a route's status or level guard: 400 with one of the
\* invalid-transition messages, nothing stored, no handler left pending
RefusedAsInvalid ==
  /\ resp'.code = 400
  /\ resp'.error \in InvalidTransition
  /\ alerts' = alerts
  /\ handlers' = handlers

\* C1: an acknowledge, resolve or escalate request that arrives when the
\* stored status of its alert is RESOLVED or FALSE_POSITIVE, whatever requests
\* and sweep ticks came before, is refused with an invalid-transition error
\* and leaves the alert (status, escalation.level, priority) as it was.
TerminalRejectsRequests ==
  [][\A h \in 1..MaxHandlers, id \in 1..Len(alerts) :
       alerts[id].status \in Terminal =>
         /\ \A by \in Actors : AcknowledgeRoute(h, id, by) => RefusedAsInvalid
         /\ \A by \in Actors, r \in {"RESOLVED", "FALSE_POSITIVE"} :
              ResolveRoute(h, id, by, r) => RefusedAsInvalid
         /\ \A to \in Actors : EscalateRoute(h, id, to) => RefusedAsInvalid]_vars

\* an escalate request has just been refused on a resolved alert
TerminalRequestRejected ==
  \E id \in 1..Len(alerts) :
    /\ alerts[id].status \in Terminal
    /\ resp = Reply("escalate", 400, "Only active alerts can be escalated")

\* C2: the sweep and an operator transition on the same alert are serialized:
\* every escalation the sweep writes lands on an alert whose stored status is
\* ACTIVE and raises the stored level by one, and it overwrites nothing an
\* operator wrote since the sweep read the alert.
SweepSerialized ==
  [][\A s \in 1..MaxSweeps :
       SweepEscalate(s) =>
         /\ alerts[Head(sweeps[s]).id].status = "ACTIVE"
         /\ alerts'[Head(sweeps[s]).id].level = alerts[Head(sweeps[s]).id].level + 1]_vars

\* C3 as stated: an alert at escalation.level 3 has priority CRITICAL.
LevelThreeIsCritical ==
  \A id \in 1..Len(alerts) :
    alerts[id].level = 3 => alerts[id].priority = "CRITICAL"

\* C3: an alert at escalation.level 3 has priority MEDIUM or above, and an
\* alert created LOW that three escalations took to level 3 has priority
\* MEDIUM: reaching 3 raises a priority below CRITICAL by one step.
LevelThreeRaisedOneStep ==
  \A id \in 1..Len(alerts) :
    alerts[id].level = 3 =>
      /\ alerts[id].priority # "LOW"
      /\ (origin[id].priority = "LOW" /\ origin[id].escalations = 3)
           => alerts[id].priority = "MEDIUM"

\* an alert created LOW has been escalated three times, to level 3
LowEscalatedThreeTimes ==
  \E id \in 1..Len(alerts) :
    /\ origin[id].priority = "LOW"
    /\ origin[id].escalations = 3
    /\ alerts[id].level = 3
    /\ alerts[id].priority = "MEDIUM"

\* C7: a resolve request naming an actor is accepted exactly when its
\* resolution is RESOLVED or FALSE_POSITIVE and the status it reads is neither
\* of the two; the accepted request then stores the given resolution as
\* status, the actor and the resolve timestamp, leaves escalation.level and
\* priority as stored, and answers 200. Any other resolve request is answered
\* 400 with the alert unchanged.
ResolveContract ==
  [][/\ \A h \in 1..MaxHandlers, id \in 1..Len(alerts), by \in Actors,
          r \in Resolutions :
          ResolveRoute(h, id, by, r) =>
            IF r \in {"RESOLVED", "FALSE_POSITIVE"} /\ alerts[id].status \notin Terminal
              THEN /\ handlers'[h] =
                        [op |-> "resolve", id |-> id,
                         upd |-> [status |-> r, resolvedAt |-> SomeDate,
                                  resolvedBy |-> by]]
                   /\ alerts' = alerts
                   /\ resp' = NoResp
              ELSE /\ resp'.code = 400
                   /\ resp'.error \in {"Invalid resolution type",
                                       "Alert is already resolved"}
                   /\ alerts' = alerts
                   /\ handlers' = handlers
     /\ \A h \in 1..MaxHandlers :
          (RouteSave(h) /\ handlers[h].op = "resolve") =>
            /\ alerts'[handlers[h].id].status = handlers[h].upd.status
            /\ alerts'[handlers[h].id].resolvedBy = handlers[h].upd.resolvedBy
            /\ alerts'[handlers[h].id].resolvedAt = SomeDate
            /\ alerts'[handlers[h].id].level = alerts[handlers[h].id].level
            /\ alerts'[handlers[h].id].priority = alerts[handlers[h].id].priority
            /\ resp' = Reply("resolve", 200, NoValue)]_vars

\* an acknowledged alert has just been resolved as a false positive
ResolvedFromAcknowledged ==
  \E id \in 1..Len(alerts) :
    /\ alerts[id].status = "FALSE_POSITIVE"
    /\ alerts[id].acknowledgedBy # NoValue
    /\ alerts[id].resolvedBy # NoValue
    /\ alerts[id].resolvedAt = SomeDate
    /\ resp = Reply("resolve", 200, NoValue)

LevelNeverDecreases ==
  /\ [](\A id \in 1..Len(alerts) : alerts[id].level \in 0..3)
  /\ [][\A id \in 1..Len(alerts) : alerts'[id].level >= alerts[id].level]_vars

\* ------------------------------------------------------------- ingestion

\* C4: every stored reading classified HIGH has exactly one alert, ACTIVE
\* with priority HIGH or CRITICAL, and a reading classified LOW or MEDIUM has
\* none, whichever path stored the reading.
HighReadingHasOneAlert ==
  \A i \in 1..Len(readings) :
    LET created == {a \in 1..Len(alerts) : alerts[a].sensorReadingId = i}
    IN IF readings[i].riskPrediction.level = "HIGH"
         THEN /\ Cardinality(created) = 1
              /\ \A a \in created : /\ alerts[a].status = "ACTIVE"
                                    /\ alerts[a].priority \in {"HIGH", "CRITICAL"}
         ELSE created = {}

\* C5: an ingestion of a valid reading of an existing sensor stores the
\* reading with a classification whatever the remote predictor did, on the
\* route, in the batch loop and in the simulator.
IngestionAlwaysPersists ==
  [][\A sensorId \in Sensors, r \in ValidVectors, script \in Scripts,
        response \in Responses :
       (\/ PostReading(sensorId, r, script, response)
        \/ BatchItem(sensorId, r, script, response)
        \/ GenerateSensorReading(sensorId, r, script, response))
         => /\ Len(readings') = Len(readings) + 1
            /\ readings'[Len(readings')].readings = r
            /\ readings'[Len(readings')].riskPrediction.level \in RiskLevels]_vars

\* ------------------------------------------------------- acknowledgement

\* C6: on the route and on the socket event alike, an acknowledgement by an
\* authorised caller goes ahead exactly when the status read is ACTIVE,
\* storing ACKNOWLEDGED with the actor and the timestamp; from any other
\* status the caller is told of the invalid transition and the alert is
\* unchanged.
AcknowledgeContract ==
  [][/\ \A h \in 1..MaxHandlers, id \in 1..Len(alerts), by \in Actors :
          /\ AcknowledgeRoute(h, id, by) =>
               IF alerts[id].status = "ACTIVE"
                 THEN handlers'[h].upd =
                        [status |-> "ACKNOWLEDGED", acknowledgedAt |-> SomeDate,
                         acknowledgedBy |-> by]
                 ELSE RefusedAsInvalid
          /\ \A k \in Sockets :
               (AcknowledgeAlertEvent(h, k, id, by)
                  /\ clients[k].role \in {"operator", "supervisor"}) =>
                 IF alerts[id].status = "ACTIVE"
                   THEN handlers'[h].upd =
                          [status |-> "ACKNOWLEDGED", acknowledgedAt |-> SomeDate,
                           acknowledgedBy |-> by]
                   ELSE /\ resp'.error \in InvalidTransition
                        /\ alerts' = alerts
                        /\ handlers' = handlers
     /\ \A h \in 1..MaxHandlers :
          (RouteSave(h) \/ EventSave(h)) /\ handlers[h].op \in {"acknowledge",
                                                                "acknowledge-alert"}
            => /\ alerts'[handlers[h].id].status = "ACKNOWLEDGED"
               /\ alerts'[handlers[h].id].acknowledgedBy = handlers[h].upd.acknowledgedBy
               /\ alerts'[handlers[h].id].acknowledgedAt = SomeDate]_vars

\* --------------------------------------------------- escalation and sweep

\* what an escalation of a document loaded with this level and priority does
\* to the priority: the next step up when it brings the level to 3 and the
\* priority is below CRITICAL, nothing otherwise
RaisedPriority(level, priority) ==
  IF level + 1 = 3 /\ priority # "CRITICAL"
    THEN priorities[indexOf(priority) + 1]
    ELSE priority

\* C11: an escalation, manual or by the sweep, assigns priority only when it
\* brings the level of the document it loaded to 3 and that document's
\* priority is below CRITICAL, and then assigns the next priority in the order
\* LOW, MEDIUM, HIGH, CRITICAL; an escalation to level 1 or 2 assigns none and
\* the stored priority stays; the priority written is never below the one
\* loaded.
EscalateRaisesOneStep ==
  [][/\ \A h \in 1..MaxHandlers :
          (/\ handlers[h] = Idle
           /\ handlers'[h] # Idle
           /\ handlers'[h].op = "escalate") =>
            LET doc == alerts[handlers'[h].id]
                upd == handlers'[h].upd
            IN /\ ("priority" \in DOMAIN upd) <=>
                    (upd.level = 3 /\ doc.priority # "CRITICAL")
               /\ ("priority" \in DOMAIN upd) =>
                    /\ upd.priority = RaisedPriority(doc.level, doc.priority)
                    /\ indexOf(upd.priority) = indexOf(doc.priority) + 1
     /\ \A h \in 1..MaxHandlers :
          (RouteSave(h) /\ handlers[h].op = "escalate") =>
            alerts'[handlers[h].id].priority =
              IF "priority" \in DOMAIN handlers[h].upd
                THEN handlers[h].upd.priority
                ELSE alerts[handlers[h].id].priority
     /\ \A s \in 1..MaxSweeps :
          SweepEscalate(s) =>
            LET doc == Head(sweeps[s])
            IN alerts'[doc.id].priority =
                 IF doc.level + 1 = 3 /\ doc.priority # "CRITICAL"
                   THEN RaisedPriority(doc.level, doc.priority)
                   ELSE alerts[doc.id].priority]_vars

\* an alert created HIGH has just been escalated a third time, to CRITICAL
HighRaisedToCritical ==
  \E id \in 1..Len(alerts) :
    /\ origin[id].priority = "HIGH"
    /\ origin[id].escalations = 3
    /\ alerts[id].level = 3
    /\ alerts[id].priority = "CRITICAL"
    /\ resp = Reply("escalate", 200, NoValue)

\* minutes an ACTIVE alert of each priority waits before the sweep takes it
ThresholdMinutes == [CRITICAL |-> 2, HIGH |-> 5, MEDIUM |-> 15, LOW |-> 30]

\* the ids a sweep invocation has loaded
Loaded(list) == {list[i].id : i \in 1..Len(list)}

OverdueReachesLevelThree ==
  /\ \A id \in 1..LifecycleAlerts :
       (/\ Len(alerts) >= id
        /\ alerts[id].level = 0
        /\ alerts[id].triggeredAt[1] + ThresholdMinutes[origin[id].priority]
             + 3 * MaxSweeps <= MaxNow)
         ~> (/\ Len(alerts) >= id
             /\ alerts[id].level = 3 \/ alerts[id].status # "ACTIVE")
  /\ [][\A s \in 1..MaxSweeps :
          Tick(s) => \A id \in Loaded(sweeps'[s]) : alerts[id].level < 3]_vars

\* a CRITICAL alert was taken to level 3 by the sweep alone and a later tick
\* passed it by
SweepStoppedAtLevelThree ==
  /\ Len(alerts) = 1
  /\ alerts[1].status = "ACTIVE"
  /\ alerts[1].level = 3
  /\ alerts[1].escalatedTo = SweepActor
  /\ origin[1].escalations = 3
  /\ alerts[1].triggeredAt = <<0, 1>>
  /\ now = 6
  /\ \A s \in 1..MaxSweeps : sweeps[s] = <<>>

\* C14: at most one sweep is in progress at any time, so no alert is held by
\* two sweeps at once.
OneSweepAtATime ==
  \A s, r \in 1..MaxSweeps :
    s # r => sweeps[s] = <<>> \/ sweeps[r] = <<>>

\* C15: recording an action is accepted for an existing alert whatever its
\* status, and its save appends exactly the requested entry at the end of the
\* stored action log, leaving every other field of the alert, the earlier
\* entries and every other alert unchanged.
RecordActionContract ==
  [][\A h \in 1..MaxHandlers :
       /\ \A id \in 1..Len(alerts), action \in Actions, by \in Actors :
            RecordActionRoute(h, id, action, by) =>
              /\ resp' = NoResp
              /\ handlers'[h].op = "recordAction"
              /\ handlers'[h].id = id
       /\ (RouteSave(h) /\ handlers[h].op = "recordAction") =>
            /\ resp' = Reply("recordAction", 200, NoValue)
            /\ Len(alerts'[handlers[h].id].actionsTaken)
                 = Len(alerts[handlers[h].id].actionsTaken) + 1
            /\ SubSeq(alerts'[handlers[h].id].actionsTaken, 1,
                      Len(alerts[handlers[h].id].actionsTaken))
                 = alerts[handlers[h].id].actionsTaken
            /\ alerts'[handlers[h].id].actionsTaken[
                   Len(alerts'[handlers[h].id].actionsTaken)].action
                 = handlers[h].upd.push.action
            /\ alerts'[handlers[h].id].actionsTaken[
                   Len(alerts'[handlers[h].id].actionsTaken)].takenBy
                 = handlers[h].upd.push.takenBy
            /\ \A f \in DOMAIN alerts[handlers[h].id] \ {"actionsTaken"} :
                 alerts'[handlers[h].id][f] = alerts[handlers[h].id][f]
            /\ \A j \in 1..Len(alerts) :
                 j # handlers[h].id => alerts'[j] = alerts[j]]_vars

\* a second, different action has just been logged on a RESOLVED alert
ActionLoggedOnResolved ==
  /\ Len(alerts) = 1
  /\ alerts[1].status = "RESOLVED"
  /\ Len(alerts[1].actionsTaken) = 2
  /\ alerts[1].actionsTaken[1].action = "evacuate"
  /\ alerts[1].actionsTaken[2].action = "inspect"
  /\ resp = Reply("recordAction", 200, NoValue)

\* ------------------------------------------------------- alert creation

\* C16: every stored alert has riskLevel HIGH and comes from a reading that
\* ingestion classified HIGH, with confidence above 0.5.
AlertsOnlyFromHighReadings ==
  \A i \in 1..Len(alerts) :
    /\ alerts[i].riskLevel = "HIGH"
    /\ readings[alerts[i].sensorReadingId].riskPrediction.level = "HIGH"
    /\ readings[alerts[i].sensorReadingId].riskPrediction.confidence > 5000

\* C17: a created alert is ACTIVE at level 0 with no acknowledge or resolve
\* data, a HIGH-risk alert has priority HIGH or CRITICAL, CRITICAL only when
\* the system generated it, and it has one trigger factor per factor of the
\* reading's classification, with the reading's value and the sensor's
\* threshold.
CreateContract ==
  [][Len(alerts') > Len(alerts) =>
       LET a == alerts'[Len(alerts')]
           rd == readings'[a.sensorReadingId]
       IN /\ a.status = "ACTIVE"
          /\ a.level = 0
          /\ a.acknowledgedAt = NoValue /\ a.acknowledgedBy = NoValue
          /\ a.resolvedAt = NoValue /\ a.resolvedBy = NoValue
          /\ a.riskLevel = "HIGH" => a.priority \in {"HIGH", "CRITICAL"}
          /\ a.priority = "CRITICAL" => resp'.op = "generateSensorReading"
          /\ Len(a.triggerFactors) = Len(rd.riskPrediction.factors)
          /\ \A k \in 1..Len(a.triggerFactors) :
               /\ a.triggerFactors[k].factor = rd.riskPrediction.factors[k]
               /\ a.triggerFactors[k].value
                    = factorValue(rd.readings, rd.riskPrediction.factors[k])
               /\ a.triggerFactors[k].threshold
                    = alertThreshold(rd.riskPrediction.factors[k])]_vars

\* C18: no two alerts share an alertId, and every simulator reading
\* classified HIGH with confidence above 0.5 has the alert created for it.
AlertIdsUniqueNoneLost ==
  /\ \A i, j \in 1..Len(alerts) : i # j => alerts[i].alertId # alerts[j].alertId
  /\ \A k \in 1..Len(readings) :
       (/\ readings[k].source = "BACKEND_SIMULATION"
        /\ readings[k].riskPrediction.level = "HIGH"
        /\ readings[k].riskPrediction.confidence > 5000)
         => \E i \in 1..Len(alerts) :
              /\ alerts[i].sensorReadingId = k
              /\ alerts[i].triggeredAt = readings[k].timestamp

\* ---------------------------------------------------- fallback classifier

\* points of one rule-table row
Points(condition, points) == IF condition THEN points ELSE 0

\* the rule-table score of a feature vector
TableScore(f) ==
  Points(f.Slope_Angle > 50, 30) + Points(f.Rainfall_mm > 50, 25)
    + Points(f.Earthquake_Activity > 20, 20) + Points(f.Soil_Saturation > 70, 15)
    + Points(f.Vegetation_Cover < 30, 10) + Points(f.Proximity_to_Water < 50, 10)
    + Points(f.Landslide > 50, 25)
    + Points(f.Soil_Type_Sand /\ f.Soil_Saturation > 50, 5)
    + Points(f.Soil_Type_Silt /\ f.Rainfall_mm > 30, 8)

\* C19: the fallback classifier returns for every feature vector, and returns
\* HIGH with 0.7 when the rule-table score is at least 60, MEDIUM with 0.6
\* when it is in [30, 60) and LOW with 0.8 below 30; a slope above 50 alone
\* gives MEDIUM and a slope of exactly 50 adds nothing.
FallbackFollowsScore ==
  /\ ENABLED Classify \/ fallback.ok
  /\ fallback.ok =>
       /\ fallback = generateFallbackPrediction(features)
       /\ TableScore(features) >= 60 =>
            fallback.level = "HIGH" /\ fallback.confidence = 7000
       /\ (TableScore(features) >= 30 /\ TableScore(features) < 60) =>
            fallback.level = "MEDIUM" /\ fallback.confidence = 6000
       /\ TableScore(features) < 30 =>
            fallback.level = "LOW" /\ fallback.confidence = 8000
       /\ (features.Slope_Angle > 50 /\ TableScore(features) = 30) =>
            fallback.level = "MEDIUM"
       /\ (features.Slope_Angle = 50 /\ fallback.level = "HIGH") =>
            TableScore([features EXCEPT !.Slope_Angle = 51]) >= 90

\* a score of exactly 60 has been classified HIGH
ScoreSixtyIsHigh ==
  /\ fallback.ok
  /\ TableScore(features) = 60
  /\ fallback.level = "HIGH"

\* the factor names of the rule-table rows that hold, in table order
TableFactors(f) ==
  (IF f.Slope_Angle > 50 THEN <<"Slope_Angle">> ELSE <<>>)
    \o (IF f.Rainfall_mm > 50 THEN <<"Rainfall_mm">> ELSE <<>>)
    \o (IF f.Earthquake_Activity > 20 THEN <<"Earthquake_Activity">> ELSE <<>>)
    \o (IF f.Soil_Saturation > 70 THEN <<"Soil_Saturation">> ELSE <<>>)
    \o (IF f.Vegetation_Cover < 30 THEN <<"Vegetation_Cover">> ELSE <<>>)
    \o (IF f.Proximity_to_Water < 50 THEN <<"Proximity_to_Water">> ELSE <<>>)
    \o (IF f.Landslide > 50 THEN <<"Landslide">> ELSE <<>>)
    \o (IF f.Soil_Type_Sand /\ f.Soil_Saturation > 50
          THEN <<"Soil_Type_Sand">> ELSE <<>>)
    \o (IF f.Soil_Type_Silt /\ f.Rainfall_mm > 30
          THEN <<"Soil_Type_Silt">> ELSE <<>>)

\* C20: the fallback factor list is the list of the factor names of the
\* rule-table rows that hold, each once, in table order, and it is empty
\* exactly when the score is 0.
FallbackFactorsInTableOrder ==
  fallback.ok =>
    /\ fallback.factors = TableFactors(features)
    /\ \A i, j \in 1..Len(fallback.factors) :
         i # j => fallback.factors[i] # fallback.factors[j]
    /\ fallback.factors = <<>> <=> TableScore(features) = 0

\* all nine rows held and all nine names were returned
AllFactorsListed ==
  /\ fallback.ok
  /\ Len(fallback.factors) = 9
  /\ fallback.factors[1] = "Slope_Angle"
  /\ fallback.factors[9] = "Soil_Type_Silt"

\* ------------------------------------------------------- prediction client

\* the version a validated remote answer announces
RemoteVersion(response) ==
  IF response.model_version = NoValue THEN "1.0" ELSE response.model_version

\* C21: a stored reading carries the tag fallback-2.0 exactly when the remote
\* prediction failed and the fallback classified it, and a reading the remote
\* service classified carries the version the remote answer announced.
StoredTagTellsOrigin ==
  [][Len(readings') > Len(readings) =>
       \A sensorId \in SensorIds, r \in Vectors, script \in Scripts,
          response \in Responses :
         (\/ PostReading(sensorId, r, script, response)
          \/ BatchItem(sensorId, r, script, response)
          \/ GenerateSensorReading(sensorId, r, script, response)) =>
           LET tag == readings'[Len(readings')].riskPrediction.aiModelVersion
           IN /\ tag = "fallback-2.0" <=> ~getPrediction(script, response).ok
              /\ getPrediction(script, response).ok =>
                   tag = RemoteVersion(response)]_vars

\* the call has passed its argument checks and made its last request
Settled == call.attempt >= 1 /\ call.phase \in {"validate", "returned", "thrown"}

\* attempt k is the first that does not fail with a retryable failure
FirstFinal(k) ==
  /\ call.script[k] \in {"ok", "4xx"}
  /\ \A j \in 1..(k - 1) : call.script[j] \notin {"ok", "4xx"}

\* the waits after the first and after the second failed attempt
Backoff == <<1000, 2000>>

\* C22: when every attempt fails with a retryable failure the call makes
\* exactly 3 requests, waits 1000 ms after the first and 2000 ms after the
\* second, never waits after the third, and fails; when attempt k succeeds
\* its answer is handed back after k requests and k - 1 waits and no further
\* request is made.  The loop agrees with retryRequest, its closed form.
RetryThreeTimesWithBackoff ==
  /\ call.attempt >= 1 =>
       /\ call.requests <= retryAttempts
       /\ Len(call.delays) <= 2
       /\ call.delays = SubSeq(Backoff, 1, Len(call.delays))
  /\ Settled =>
       /\ (\A k \in 1..retryAttempts : call.script[k] \notin {"ok", "4xx"}) =>
            /\ call.phase = "thrown"
            /\ call.requests = 3
            /\ call.delays = Backoff
       /\ \A k \in 1..retryAttempts :
            (FirstFinal(k) /\ call.script[k] = "ok") =>
              /\ call.requests = k
              /\ Len(call.delays) = k - 1
              /\ call.error # "request failed"
       /\ retryRequest(call.script).attempts = call.requests
       /\ retryRequest(call.script).delays = call.delays
       /\ retryRequest(call.script).ok <=> call.error # "request failed"

\* three retryable failures: three requests, two waits, the call has failed
ThreeAttemptsFailed ==
  /\ call.phase = "thrown"
  /\ call.script = <<"timeout", "5xx", "timeout">>
  /\ call.requests = 3
  /\ call.delays = <<1000, 2000>>

\* C23: a 4xx answer ends the call at once: the attempt that met it is the
\* last request, no wait follows it, and a 4xx on the first attempt means
\* exactly one request and no wait at all.
ClientErrorNotRetried ==
  Settled =>
    \A k \in 1..retryAttempts :
      (FirstFinal(k) /\ call.script[k] = "4xx") =>
        /\ call.phase = "thrown"
        /\ call.error = "request failed"
        /\ call.requests = k
        /\ Len(call.delays) = k - 1

\* a 4xx on the first attempt ended the call after one request
ClientErrorAfterOneAttempt ==
  /\ call.phase = "thrown"
  /\ call.script[1] = "4xx"
  /\ call.requests = 1
  /\ call.delays = <<>>

\* C24: an answer without a valid risk level or confidence is never handed
\* back as a classification, and it counts as a failed attempt: after three
\* such answers the call has made 3 requests with the waits of the backoff.
MalformedAnswerIsRetried ==
  (/\ call.kind = "predict"
   /\ call.phase \in {"returned", "thrown"}
   /\ call.script = <<"ok", "ok", "ok">>
   /\ ~validatePredictionResponse(call.response).ok) =>
    /\ call.phase = "thrown"
    /\ call.requests = 3
    /\ call.delays = Backoff

\* C25: a batch call is accepted for 1 to 50 feature sets; for a non-array,
\* an empty array or more than 50 it fails before any request is made; and
\* an item of the answer that fails validation causes no further request.
BatchWithinLimitNoItemRetry ==
  /\ [](/\ (call.kind = "batch" /\ call.phase # "start") =>
             /\ (call.arg.isArray /\ call.arg.length \in 1..50)
                  <=> call.attempt >= 1
             /\ call.attempt = 0 =>
                  /\ call.phase = "thrown"
                  /\ call.requests = 0
                  /\ call.error \in {"Invalid sensor data array",
                                     "Maximum 50 predictions per batch"}
        /\ (call.kind = "batch" /\ Settled) =>
             \A k \in 1..retryAttempts :
               (FirstFinal(k) /\ call.script[k] = "ok") =>
                 /\ call.requests = k
                 /\ call.phase = "thrown" => call.bad \in 1..call.arg.length
                 /\ call.phase = "returned" => call.bad = 0)
  /\ [][ValidateBatch => call'.requests = call.requests
                           /\ call'.phase \in {"returned", "thrown"}]_vars

\* a batch of 50 came back with its second item invalid: the call has failed
\* after the one request that was answered
BatchItemRejected ==
  /\ call.kind = "batch"
  /\ call.arg.length = 50
  /\ call.bad = 2
  /\ call.script = <<"timeout", "ok", "ok">>
  /\ call.phase = "thrown"
  /\ call.requests = 2

\* --------------------------------------------------------------- ingestion

\* C26: a reading refused for its feature values is answered with a
\* validation error whose details name every out-of-range field.
ValidationListsEveryField ==
  [][\A sensorId \in SensorIds, r \in Vectors :
       (/\ outOfRange(r, rangeChecks) # <<>>
        /\ \E script \in Scripts, response \in Responses :
             PostReading(sensorId, r, script, response)) =>
         /\ resp'.code = 400
         /\ resp'.error = "Validation failed"
         /\ {resp'.details[i] : i \in 1..Len(resp'.details)}
              = {outOfRange(r, rangeChecks)[i] :
                   i \in 1..Len(outOfRange(r, rangeChecks))}]_vars

\* C27: a reading that fails validation, or that names an unknown sensor, is
\* refused (400 before 404) without any call of the prediction client or of
\* the fallback: nothing is stored, no lastReading moves, no alert is created
\* and nothing is emitted; a batch item is counted as failed and no more.
RefusedBeforeClassification ==
  [][\A sensorId \in SensorIds, r \in Vectors :
       (outOfRange(r, rangeChecks) # <<>> \/ sensorId \notin Sensors) =>
         /\ PostReading(sensorId, r, <<"ok", "ok", "ok">>, <<>>) =>
              /\ UNCHANGED <<call, fallback, readings, lastReading, alerts>>
              /\ resp'.code = IF outOfRange(r, rangeChecks) # <<>> THEN 400 ELSE 404
         /\ BatchItem(sensorId, r, <<"ok", "ok", "ok">>, <<>>) =>
              /\ UNCHANGED <<call, fallback, readings, lastReading, alerts, resp>>
              /\ batch'.failed = batch.failed + 1
              /\ batch'.successful = batch.successful]_vars

\* a reading for an unknown sensor has been refused after an earlier reading
\* was classified with one request: the client was not called again
UnknownSensorRefused ==
  /\ resp = Reply("POST /api/readings", 404, "Sensor not found")
  /\ Len(readings) = 1
  /\ call.phase = "done"
  /\ call.requests = 1
  /\ lastReading["S1"] = <<0, 0>>
  /\ msec = 1

\* ------------------------------------------- the two escalation criteria

\* C28: at every instant the virtual needsEscalation of an alert is true
\* exactly when the query of getAlertsNeedingEscalation selects the alert.
EscalationCriteriaAgree ==
  \A i \in 1..Len(alerts) :
    needsEscalation(alerts[i], Date) <=> matchesEscalationQuery(alerts[i], Date)

\* ------------------------------------------- status and recorded data

\* C29: an alert's recorded data fits its status: ACTIVE has neither an
\* acknowledger nor a resolver, ACKNOWLEDGED has an acknowledger with the
\* time and no resolver, and a resolver with the time is recorded exactly
\* for RESOLVED and FALSE_POSITIVE.
RecordFitsStatus ==
  \A i \in 1..Len(alerts) :
    LET a == alerts[i] IN
      /\ a.status = "ACTIVE" =>
           a.acknowledgedBy = NoValue /\ a.resolvedBy = NoValue
      /\ a.status = "ACKNOWLEDGED" =>
           /\ a.acknowledgedBy # NoValue
           /\ a.acknowledgedAt # NoValue
           /\ a.resolvedBy = NoValue
      /\ (a.resolvedBy # NoValue /\ a.resolvedAt # NoValue) <=> a.status \in Terminal

\* ------------------------------------------- who may acknowledge by socket

\* the socket's entry in connectedClients allows acknowledging
Authorised(k) == clients[k].role \in {"operator", "supervisor"}

\* C30: an acknowledge-alert event from a socket whose entry is missing or
\* has another role leaves the alerts unchanged, starts no write, broadcasts
\* nothing and sends the error to the sender; a write of the event handler
\* is only ever started for a socket authenticated as operator or supervisor.
SocketAcknowledgeAuthorised ==
  [][/\ \A h \in 1..MaxHandlers, k \in Sockets, id \in 1..(LifecycleAlerts + 1),
          by \in Actors \cup {NoValue} :
          (AcknowledgeAlertEvent(h, k, id, by) /\ ~Authorised(k)) =>
            /\ alerts' = alerts
            /\ handlers' = handlers
            /\ resp' = Reply("acknowledge-alert", 0, "Unauthorized to acknowledge alerts")
     /\ \A h \in 1..MaxHandlers :
          (handlers'[h] # handlers[h] /\ handlers'[h].op = "acknowledge-alert") =>
            \E k \in Sockets : Authorised(k)
     /\ (alerts' # alerts /\ resp'.error = "alert-acknowledged") =>
          \E h \in 1..MaxHandlers : handlers[h].op = "acknowledge-alert"]_vars

\* a socket authenticated as viewer asked to acknowledge an ACTIVE alert and
\* was refused
ViewerRefused ==
  /\ resp = Reply("acknowledge-alert", 0, "Unauthorized to acknowledge alerts")
  /\ clients["k1"].role = "viewer"
  /\ Len(alerts) >= 1
  /\ alerts[1].status = "ACTIVE"

====
